---- MODULE Spec2Model ----
(***************************************************************************)
(* convert_predictions.py: a JSONL file of model predictions is read line  *)
(* by line, every line that is a JSON object holding the three required    *)
(* fields is projected onto them, and the list is written as one JSON      *)
(* array.  The model follows one run of main() step by step, and a second  *)
(* run of the same command over the file system the first one left.        *)
(***************************************************************************)
EXTENDS Integers, Sequences, FiniteSets, TLC

\* Longest input file, in lines.
MaxLines == 3
\* Number of times the command is run on the same arguments.
MaxRuns == 2

(***************************************************************************)
(* Input lines.  A line is what json.loads makes of its text: text that is *)
(* no JSON ("malformed"), a line holding nothing but its newline           *)
(* ("blank"), JSON that is no object ("scalar": 42, "x", [1], null) or an  *)
(* object, given by its keys and values.                                   *)
(***************************************************************************)
required_fields == {"instance_id", "model_patch", "model_name_or_path"}

Tags == {"a", "b"}

\* The string under key k in the object tagged t.
FieldValue(k, t) == k \o ":" \o t

ObjectOf(S, t) == [k \in S |-> FieldValue(k, t)]

BlankLine == [kind |-> "blank", obj |-> <<>>]
MalformedLine == [kind |-> "malformed", obj |-> <<>>]
ScalarLine == [kind |-> "scalar", obj |-> <<>>]
ObjectLine(S, t) == [kind |-> "object", obj |-> ObjectOf(S, t)]

\* Key sets of objects that lack three, two and one of the required fields.
DeficientKeySets ==
    { {}, {"instance_id", "extra"}, {"instance_id", "model_name_or_path"} }

\* Key sets of objects that hold all the required fields.
CompleteKeySets == { required_fields, required_fields \cup {"extra"} }

LineAlphabet ==
    {BlankLine, MalformedLine, ScalarLine}
        \cup { ObjectLine(S, "a") : S \in DeficientKeySets }
        \cup { ObjectLine(S, t) : S \in CompleteKeySets, t \in Tags }

InputFiles == UNION { [1..n -> LineAlphabet] : n \in 0..MaxLines }

\* Some earlier content of the output path, unrelated to this input.
StaleContent == <<"stale">>

VARIABLES
    in_env,         \* the input path: "ok", "missing" or "unreadable"
    lines,          \* the lines of the input file
    parent_exists,  \* the output path's parent directory exists
    out_exists,     \* the output file exists
    out_content,    \* the output file's content, as JSON tokens
    pc,             \* where the run is
    line_num,       \* enumerate(f, 1): the number of the line last read
    predictions,    \* the reader's list
    stdout,         \* the messages printed
    uncaught,       \* the exception that ended the run, or "none"
    exit_code,      \* the exit status, once pc = "exited"
    run,            \* which run of the command this is
    prev_output     \* the output file as the previous run left it

vars == <<in_env, lines, parent_exists, out_exists, out_content, pc, line_num,
          predictions, stdout, uncaught, exit_code, run, prev_output>>

fs == <<parent_exists, out_exists, out_content>>

----------------------------------------------------------------------------
(* Messages *)

Msg(kind, line, fields, count) ==
    [kind |-> kind, line |-> line, fields |-> fields, count |-> count]

StartingMsg == Msg("Starting conversion", 0, {}, 0)
ParseWarning(n) == Msg("Warning: Failed to parse JSON", n, {}, 0)
MissingWarning(n, missing) == Msg("Warning: missing fields", n, missing, 0)
NotFoundError == Msg("Error: Input file not found", 0, {}, 0)
ProcessedMsg(count) == Msg("Successfully processed", 0, {}, count)
WrittenMsg == Msg("Output written to", 0, {}, 0)
WriteError == Msg("Error writing to output file", 0, {}, 0)
CompletedMsg == Msg("Conversion completed successfully", 0, {}, 0)

Printed(m) == \E i \in DOMAIN stdout : stdout[i] = m

----------------------------------------------------------------------------
(* json.loads, the field check and the projection *)

\* json.loads(line): a JSONDecodeError, or the value parsed.
JsonLoads(line) ==
    CASE line.kind \in {"blank", "malformed"} ->
            [error |-> TRUE, is_dict |-> FALSE, value |-> <<>>]
      [] line.kind = "scalar" ->
            [error |-> FALSE, is_dict |-> FALSE, value |-> <<>>]
      [] OTHER ->
            [error |-> FALSE, is_dict |-> TRUE, value |-> line.obj]

MissingFieldsAll(entry) ==
    IF required_fields \subseteq DOMAIN entry THEN {} ELSE required_fields

\* required_fields - set(entry.keys())
MissingFields(entry) == required_fields \ DOMAIN entry

PredictionWhole(entry) == entry

\* The dict of the three fields.
Prediction(entry) ==
    [k \in required_fields |-> entry[k]]

AppendUnique(preds, p) ==
    IF \E i \in DOMAIN preds : preds[i]["instance_id"] = p["instance_id"]
    THEN preds
    ELSE Append(preds, p)

AppendFront(preds, p) == <<p>> \o preds

\* predictions.append(prediction)
AppendPrediction(preds, p) == Append(preds, p)

----------------------------------------------------------------------------
(* json.dump(predictions, f, indent=2, ensure_ascii=False), as tokens *)

\* The order in which a dict's keys are written.
KeyOrder == <<"instance_id", "model_patch", "model_name_or_path", "extra">>

RECURSIVE DumpMembers(_, _)
DumpMembers(p, i) ==
    IF i > Len(KeyOrder) THEN <<>>
    ELSE IF KeyOrder[i] \in DOMAIN p
         THEN <<KeyOrder[i], p[KeyOrder[i]]>> \o DumpMembers(p, i + 1)
         ELSE DumpMembers(p, i + 1)

DumpObject(p) == <<"{">> \o DumpMembers(p, 1) \o <<"}">>

RECURSIVE DumpItems(_)
DumpItems(preds) ==
    IF preds = <<>> THEN <<>>
    ELSE DumpObject(Head(preds)) \o DumpItems(Tail(preds))

\* An empty list is written as "[]", any other as "[", its objects, "]".
JsonDump(preds) ==
    IF preds = <<>> THEN <<"[]">>
    ELSE <<"[">> \o DumpItems(preds) \o <<"]">>

OpenForAppend(content) == content

\* open(output_file, 'w'): the file is created or truncated.
OpenForWrite(content) == <<>>

----------------------------------------------------------------------------
(* The state before the first run *)

Init ==
    /\ \/ in_env = "ok" /\ lines \in InputFiles
       \/ in_env \in {"missing", "unreadable"} /\ lines = <<>>
    /\ \/ parent_exists = FALSE /\ out_exists = FALSE /\ out_content = <<>>
       \/ parent_exists = TRUE /\ out_exists = FALSE /\ out_content = <<>>
       \/ parent_exists = TRUE /\ out_exists = TRUE /\ out_content = StaleContent
    /\ pc = "main"
    /\ line_num = 0
    /\ predictions = <<>>
    /\ stdout = <<>>
    /\ uncaught = "none"
    /\ exit_code = 0
    /\ run = 1
    /\ prev_output = <<>>

----------------------------------------------------------------------------
(* main and read_jsonl_predictions *)

\* sys.exit(1) after a diagnostic.
ExitWith(msg) ==
    /\ stdout' = Append(stdout, msg)
    /\ exit_code' = 1
    /\ pc' = "exited"
    /\ UNCHANGED uncaught

\* An exception no handler catches: a traceback, exit status 1.
Crash(exc) ==
    /\ uncaught' = exc
    /\ exit_code' = 1
    /\ pc' = "exited"
    /\ UNCHANGED stdout

MainStart ==
    /\ pc = "main"
    /\ stdout' = Append(stdout, StartingMsg)
    /\ pc' = "read_open"
    /\ UNCHANGED <<in_env, lines, fs, line_num, predictions, uncaught,
                   exit_code, run, prev_output>>

OpenInput ==
    /\ pc = "read_open"
    /\ in_env = "ok"
    /\ predictions' = <<>>
    /\ line_num' = 0
    /\ pc' = "read_loop"
    /\ UNCHANGED <<in_env, lines, fs, stdout, uncaught, exit_code, run,
                   prev_output>>

OpenInputNotFoundGoesOn ==
    /\ pc = "read_open"
    /\ in_env = "missing"
    /\ stdout' = Append(stdout, NotFoundError)
    /\ predictions' = <<>>
    /\ pc' = "write_mkdir"
    /\ UNCHANGED <<in_env, lines, fs, line_num, uncaught, exit_code, run,
                   prev_output>>

\* open() raises FileNotFoundError, which the reader catches.
OpenInputNotFound ==
    /\ pc = "read_open"
    /\ in_env = "missing"
    /\ ExitWith(NotFoundError)
    /\ UNCHANGED <<in_env, lines, fs, line_num, predictions, run, prev_output>>

\* open() raises another OSError (PermissionError, IsADirectoryError), which
\* "except FileNotFoundError" does not catch.
OpenInputOSError ==
    /\ pc = "read_open"
    /\ in_env = "unreadable"
    /\ Crash("OSError")
    /\ UNCHANGED <<in_env, lines, fs, line_num, predictions, run, prev_output>>

\* The next line of the file, and its number.
AtLine ==
    /\ pc = "read_loop"
    /\ line_num < Len(lines)
    /\ line_num' = line_num + 1

NextLine == lines[line_num + 1]

\* json.loads raises JSONDecodeError: a warning, and the next line.
ReadLineParseError ==
    /\ AtLine
    /\ JsonLoads(NextLine).error
    /\ stdout' = Append(stdout, ParseWarning(line_num + 1))
    /\ UNCHANGED <<in_env, lines, fs, pc, predictions, uncaught, exit_code,
                   run, prev_output>>

\* The value parsed has no keys(): AttributeError, which nothing catches.
ReadLineNotObject ==
    /\ AtLine
    /\ ~JsonLoads(NextLine).error
    /\ ~JsonLoads(NextLine).is_dict
    /\ Crash("AttributeError")
    /\ UNCHANGED <<in_env, lines, fs, predictions, run, prev_output>>

\* Some required field is missing: a warning, and the next line.
ReadLineMissing ==
    /\ AtLine
    /\ JsonLoads(NextLine).is_dict
    /\ MissingFields(JsonLoads(NextLine).value) # {}
    /\ stdout' = Append(stdout,
           MissingWarning(line_num + 1, MissingFields(JsonLoads(NextLine).value)))
    /\ UNCHANGED <<in_env, lines, fs, pc, predictions, uncaught, exit_code,
                   run, prev_output>>

\* All required fields are present: the projection is appended.
ReadLineAppend ==
    /\ AtLine
    /\ JsonLoads(NextLine).is_dict
    /\ MissingFields(JsonLoads(NextLine).value) = {}
    /\ predictions' =
           AppendPrediction(predictions, Prediction(JsonLoads(NextLine).value))
    /\ UNCHANGED <<in_env, lines, fs, pc, stdout, uncaught, exit_code, run,
                   prev_output>>

\* End of file: the reader returns and main calls the writer.
ReaderReturn ==
    /\ pc = "read_loop"
    /\ line_num = Len(lines)
    /\ pc' = "write_mkdir"
    /\ UNCHANGED <<in_env, lines, fs, line_num, predictions, stdout, uncaught,
                   exit_code, run, prev_output>>

----------------------------------------------------------------------------
(* write_predictions_json *)

WriteFailedGoesOn ==
    /\ stdout' = Append(stdout, WriteError)
    /\ pc' = "main_done"
    /\ UNCHANGED <<uncaught, exit_code>>

\* except IOError: the error is printed and the run ends with status 1.
WriteFailed == ExitWith(WriteError)

\* Path(output_file).parent.mkdir(parents=True, exist_ok=True)
MkdirParents ==
    /\ pc = "write_mkdir"
    /\ parent_exists' = TRUE
    /\ pc' = "write_open"
    /\ UNCHANGED <<in_env, lines, out_exists, out_content, line_num,
                   predictions, stdout, uncaught, exit_code, run, prev_output>>

\* mkdir raises an OSError.
MkdirFails ==
    /\ pc = "write_mkdir"
    /\ WriteFailed
    /\ UNCHANGED <<in_env, lines, fs, line_num, predictions, run, prev_output>>

OpenOutput ==
    /\ pc = "write_open"
    /\ out_exists' = TRUE
    /\ out_content' = OpenForWrite(out_content)
    /\ pc' = "write_dump"
    /\ UNCHANGED <<in_env, lines, parent_exists, line_num, predictions, stdout,
                   uncaught, exit_code, run, prev_output>>

\* open raises an OSError: the file is left as it was.
OpenOutputFails ==
    /\ pc = "write_open"
    /\ WriteFailed
    /\ UNCHANGED <<in_env, lines, fs, line_num, predictions, run, prev_output>>

\* json.dump writes the array after what the open left, and the file is closed.
DumpOutput ==
    /\ pc = "write_dump"
    /\ out_content' = out_content \o JsonDump(predictions)
    /\ pc' = "write_report"
    /\ UNCHANGED <<in_env, lines, parent_exists, out_exists, line_num,
                   predictions, stdout, uncaught, exit_code, run, prev_output>>

\* A write or the close raises an OSError: some proper prefix is on disk.
DumpFails ==
    /\ pc = "write_dump"
    /\ \E n \in 0..(Len(JsonDump(predictions)) - 1) :
           out_content' = out_content \o SubSeq(JsonDump(predictions), 1, n)
    /\ WriteFailed
    /\ UNCHANGED <<in_env, lines, parent_exists, out_exists, line_num,
                   predictions, run, prev_output>>

\* The two prints that end the writer's try block.
WriteReport ==
    /\ pc = "write_report"
    /\ stdout' = stdout \o <<ProcessedMsg(Len(predictions)), WrittenMsg>>
    /\ pc' = "main_done"
    /\ UNCHANGED <<in_env, lines, fs, line_num, predictions, uncaught,
                   exit_code, run, prev_output>>

\* main's last print; the interpreter exits with status 0.
MainDone ==
    /\ pc = "main_done"
    /\ stdout' = Append(stdout, CompletedMsg)
    /\ exit_code' = 0
    /\ pc' = "exited"
    /\ UNCHANGED <<in_env, lines, fs, line_num, predictions, uncaught, run,
                   prev_output>>

\* After a successful conversion the command is run again with the same
\* arguments, in a new process, over the files the first run left.
RunAgain ==
    /\ pc = "exited"
    /\ exit_code = 0
    /\ run < MaxRuns
    /\ run' = run + 1
    /\ prev_output' = out_content
    /\ pc' = "main"
    /\ line_num' = 0
    /\ predictions' = <<>>
    /\ stdout' = <<>>
    /\ uncaught' = "none"
    /\ exit_code' = 0
    /\ UNCHANGED <<in_env, lines, fs>>

Next ==
    \/ MainStart
    \/ OpenInput
    \/ OpenInputNotFound
    \/ OpenInputOSError
    \/ ReadLineParseError
    \/ ReadLineNotObject
    \/ ReadLineMissing
    \/ ReadLineAppend
    \/ ReaderReturn
    \/ MkdirParents
    \/ MkdirFails
    \/ OpenOutput
    \/ OpenOutputFails
    \/ DumpOutput
    \/ DumpFails
    \/ WriteReport
    \/ MainDone
    \/ RunAgain

Spec == Init /\ [][Next]_vars

----------------------------------------------------------------------------
(* What the claims speak of *)

\* The line is a JSON object holding every required key.
IsValidLine(l) == l.kind = "object" /\ required_fields \subseteq DOMAIN l.obj

\* The line is a JSON object lacking some required key.
IsDeficientLine(l) == l.kind = "object" /\ ~(required_fields \subseteq DOMAIN l.obj)

\* The numbers of the valid lines among the first n.
ValidLineNums(n) == { i \in 1..n : IsValidLine(lines[i]) }

\* The place, among the valid lines, of line i.
Rank(i) == Cardinality(ValidLineNums(i))

\* read_jsonl_predictions has returned its list to main.
ReaderReturned ==
    pc \in {"write_mkdir", "write_open", "write_dump", "write_report", "main_done"}

\* The run has ended with exit status 0.
Succeeded == pc = "exited" /\ exit_code = 0

\* The record arr[a] holds the required fields of line i, as they stand there.
SameFields(rec, i) ==
    /\ required_fields \subseteq DOMAIN rec
    /\ \A k \in required_fields : rec[k] = lines[i].obj[k]

StructuralTokens == {"[", "]", "{", "}", "[]"}

\* The index of the first "}" of a token sequence, or 0.
FirstClose(toks) ==
    IF \E j \in DOMAIN toks : toks[j] = "}"
    THEN CHOOSE j \in DOMAIN toks :
             toks[j] = "}" /\ \A h \in 1..(j - 1) : toks[h] # "}"
    ELSE 0

\* toks is a run of objects "{" key value ... "}".
RECURSIVE WellFormedObjects(_)
WellFormedObjects(toks) ==
    IF toks = <<>> THEN TRUE
    ELSE LET c == FirstClose(toks)
         IN  /\ toks[1] = "{"
             /\ c > 1
             /\ c % 2 = 0
             /\ \A h \in 2..(c - 1) : toks[h] \notin StructuralTokens
             /\ WellFormedObjects(SubSeq(toks, c + 1, Len(toks)))

\* The file content is one JSON array of objects.
IsJsonArray(content) ==
    \/ content = <<"[]">>
    \/ /\ Len(content) >= 2
       /\ content[1] = "["
       /\ content[Len(content)] = "]"
       /\ WellFormedObjects(SubSeq(content, 2, Len(content) - 1))

\* The object between "{" and "}", read back from its key and value tokens.
ParseObject(members) ==
    [k \in { members[2 * h - 1] : h \in 1..(Len(members) \div 2) } |->
        members[2 * (CHOOSE h \in 1..(Len(members) \div 2) : members[2 * h - 1] = k)]]

RECURSIVE ParseObjects(_)
ParseObjects(toks) ==
    IF toks = <<>> THEN <<>>
    ELSE LET c == FirstClose(toks)
         IN  <<ParseObject(SubSeq(toks, 2, c - 1))>>
                 \o ParseObjects(SubSeq(toks, c + 1, Len(toks)))

\* The array a JSON parser reads back from the output file.
OutputArray ==
    IF out_content = <<"[]">> THEN <<>>
    ELSE ParseObjects(SubSeq(out_content, 2, Len(out_content) - 1))

----------------------------------------------------------------------------
(* The claims *)

\* C1: the list the reader returns, and the array of a successful run, have
\* as many entries as the input has lines that are JSON objects holding all
\* three required keys; lines repeating an instance_id are each counted.
C1_CountOfValidLines ==
    /\ ReaderReturned =>
           Len(predictions) = Cardinality(ValidLineNums(Len(lines)))
    /\ Succeeded =>
           /\ IsJsonArray(out_content)
           /\ Len(OutputArray) = Cardinality(ValidLineNums(Len(lines)))

\* C1 witness: the reader has returned two records of one instance_id from a
\* file that also holds a skipped line.
C1_Witness ==
    /\ ReaderReturned
    /\ Len(lines) = 3
    /\ Len(predictions) = 2
    /\ predictions[1]["instance_id"] = predictions[2]["instance_id"]

\* C2: in a run whose input file was opened, no line ends the run: the reader
\* reads to the end of the file, nothing is left uncaught, and the writer is
\* called (it reports either its count or its I/O error).
C2_NoLineEndsTheRun ==
    (pc = "exited" /\ in_env = "ok") =>
        /\ line_num = Len(lines)
        /\ uncaught = "none"
        /\ Printed(WriteError) \/ Printed(ProcessedMsg(Len(predictions)))

\* C3: for valid lines i < j the record of line i stands before the record of
\* line j, in the list the reader returns and in the array written.
C3_OrderPreserved ==
    \A i, j \in ValidLineNums(Len(lines)) :
        i < j =>
            /\ ReaderReturned =>
                   /\ Rank(i) < Rank(j)
                   /\ Rank(j) \in DOMAIN predictions
                   /\ SameFields(predictions[Rank(i)], i)
                   /\ SameFields(predictions[Rank(j)], j)
            /\ Succeeded =>
                   /\ Rank(j) \in DOMAIN OutputArray
                   /\ SameFields(OutputArray[Rank(i)], i)
                   /\ SameFields(OutputArray[Rank(j)], j)

\* C3 witness: a successful run over a valid line, a skipped line and a
\* valid line of another instance.
C3_Witness ==
    /\ Succeeded
    /\ Len(lines) = 3
    /\ ValidLineNums(3) = {1, 3}
    /\ lines[1].obj["instance_id"] # lines[3].obj["instance_id"]

\* C4: every record of the reader's list and every element of the array
\* written has exactly the three required keys, each with the value the line
\* it comes from has under that key.
C4_FieldProjection ==
    /\ \A a \in DOMAIN predictions :
           /\ DOMAIN predictions[a] = required_fields
           /\ \E i \in ValidLineNums(line_num) :
                  Rank(i) = a /\ SameFields(predictions[a], i)
    /\ Succeeded =>
           \A a \in DOMAIN OutputArray :
               /\ DOMAIN OutputArray[a] = required_fields
               /\ \E i \in ValidLineNums(Len(lines)) :
                      Rank(i) = a /\ SameFields(OutputArray[a], i)

\* C4 witness: a successful run wrote the record of a line that holds a key
\* besides the required ones.
C4_Witness ==
    /\ Succeeded
    /\ Len(OutputArray) >= 1
    /\ \E i \in ValidLineNums(Len(lines)) : "extra" \in DOMAIN lines[i].obj

C5_Step ==
    in_env = "missing" =>
        /\ UNCHANGED fs
        /\ pc' \in {"main", "read_open", "exited"}
        /\ pc' = "exited" =>
               /\ exit_code' = 1
               /\ stdout'[Len(stdout')] = NotFoundError
        /\ \A m \in DOMAIN stdout' :
               stdout'[m].kind \in {StartingMsg.kind, NotFoundError.kind}

\* C5: with the input path missing, every step leaves the output file and its
\* parent directory as they were, the writer is never entered, no success
\* message is printed, and the run ends with status 1 after the diagnostic.
C5_MissingInput == [][C5_Step]_vars

\* C5 witness: the run over a missing input has ended, with no output file
\* and no parent directory.
C5_Witness ==
    /\ in_env = "missing"
    /\ pc = "exited"
    /\ ~parent_exists
    /\ ~out_exists

\* C6: with an input path that exists but cannot be opened, the run ends as
\* for a missing file: the reader's diagnostic and a non-zero status.
C6_UnreadableInput ==
    (pc = "exited" /\ in_env = "unreadable") =>
        /\ Printed(NotFoundError)
        /\ uncaught = "none"
        /\ exit_code # 0

\* C7: once the writer has reported an I/O error the run is over with status
\* 1, and neither the count of records nor the completion message is printed.
C7_WriteFailure ==
    Printed(WriteError) =>
        /\ pc = "exited"
        /\ exit_code = 1
        /\ \A m \in DOMAIN stdout :
               stdout[m].kind \notin {ProcessedMsg(0).kind, CompletedMsg.kind}

\* C7 witness: the dump of a non-empty list failed with part of it on disk.
C7_Witness ==
    /\ Printed(WriteError)
    /\ predictions # <<>>
    /\ out_exists
    /\ out_content # <<>>

\* C8: a run whose input file was opened and whose writer met no I/O error
\* ends with status 0 and a JSON array in the output file, which is [] when
\* no line is valid.
C8_SuccessWheneverWritable ==
    (pc = "exited" /\ in_env = "ok" /\ ~Printed(WriteError)) =>
        /\ exit_code = 0
        /\ out_exists
        /\ IsJsonArray(out_content)
        /\ ValidLineNums(Len(lines)) = {} => out_content = <<"[]">>

\* C9: after every successful run the output file holds the dump of the
\* list read from the input and nothing of what the path held before; after
\* a second run it holds what the first one left.
C9_Idempotent ==
    Succeeded =>
        /\ out_content = JsonDump(predictions)
        /\ run > 1 => out_content = prev_output

\* C9 witness: the second run over an input with a valid line has succeeded.
C9_Witness ==
    /\ Succeeded
    /\ run = 2
    /\ predictions # <<>>

\* The messages printed about line i.
MessagesAbout(i) == { m \in DOMAIN stdout : stdout[m].line = i }

\* C10: for every line read that is a JSON object lacking a required key,
\* exactly one message names the line: the warning that lists the required
\* keys the object lacks; no record is appended for it and the run did not
\* end at it.
C10_MissingFieldsWarning ==
    /\ \A i \in 1..line_num :
           IsDeficientLine(lines[i]) =>
               /\ Cardinality(MessagesAbout(i)) = 1
               /\ \A m \in MessagesAbout(i) :
                      stdout[m] =
                          MissingWarning(i, required_fields \ DOMAIN lines[i].obj)
               /\ ~(pc = "exited" /\ uncaught # "none" /\ line_num = i)
    /\ pc = "read_loop" =>
           Len(predictions) = Cardinality(ValidLineNums(line_num))

\* C10 witness: line 2, after a skipped line 1, lacks exactly model_patch and
\* the reader has gone on to line 3.
C10_Witness ==
    /\ line_num = 3
    /\ ~IsValidLine(lines[1])
    /\ IsDeficientLine(lines[2])
    /\ required_fields \ DOMAIN lines[2].obj = {"model_patch"}

====
